---------------------------- MODULE Spec2Model ----------------------------
(***************************************************************************)
(* A model of the striver_eye backend (src/api/router):                    *)
(*   - get_illustration.py: _extract_code_block, _sanitize_manim_code,     *)
(*     _slug, the storage key and the get_illustration request handler;    *)
(*   - composio_tools.py: chat_with_tools and compile_run_cpp.             *)
(* Text is a sequence of one-character strings, so that the regular        *)
(* expressions of the source are evaluated character by character.         *)
(***************************************************************************)
EXTENDS Integers, Sequences, FiniteSets, TLC

VARIABLES
    \* the sanitizer applied twice
    sanPc, sanCode, sanOnce, sanTwice,
    \* the code extractor applied to a model response
    extPc, extText, extOut,
    \* compile_run_cpp: the request body, the compile loop, the run, the response
    cppPc, cppBody, cppIdx, cppCompileOk, cppCompileOut, cppInvoked, cppRun, cppResp,
    \* chat_with_tools: the completion, the provider's result, the local text
    chatPc, chatCompletion, chatResult, chatLocalText, chatResp,
    \* get_illustration: the request, the row, the model's answer, the code,
    \* the warning, the key, the external calls made, the response; and across
    \* requests their number and the keys computed so far
    illPc, illReq, illRow, illRaw, illCode, illWarning, illKey, illCalls, illResp,
    illCount, illHistory

sanVars == <<sanPc, sanCode, sanOnce, sanTwice>>

extVars == <<extPc, extText, extOut>>

cppVars == <<cppPc, cppBody, cppIdx, cppCompileOk, cppCompileOut, cppInvoked,
             cppRun, cppResp>>

chatVars == <<chatPc, chatCompletion, chatResult, chatLocalText, chatResp>>

illVars == <<illPc, illReq, illRow, illRaw, illCode, illWarning, illKey, illCalls,
             illResp, illCount, illHistory>>

vars == <<sanVars, extVars, cppVars, chatVars, illVars>>

-----------------------------------------------------------------------------
(* Characters and text helpers.                                            *)

LowerSeq == <<"a","b","c","d","e","f","g","h","i","j","k","l","m","n","o","p","q","r","s","t","u","v","w","x","y","z">>

UpperSeq == <<"A","B","C","D","E","F","G","H","I","J","K","L","M","N","O","P","Q","R","S","T","U","V","W","X","Y","Z">>

DigitSeq == <<"0","1","2","3","4","5","6","7","8","9">>

Range(f) == {f[i] : i \in DOMAIN f}

Lower == Range(LowerSeq)

Upper == Range(UpperSeq)

Digits == Range(DigitSeq)

Letters == Lower \cup Upper

\* [A-Za-z_]
IdentStart == Letters \cup {"_"}

\* [A-Za-z0-9_\.]
IdentChar == Letters \cup Digits \cup {"_", "."}

\* [A-Za-z0-9_]
WordChar == Letters \cup Digits \cup {"_"}

\* \s restricted to the whitespace of the model's alphabet
Whitespace == {" ", "\n", "\t", "\r"}

Max(S) == CHOOSE x \in S : \A y \in S : y <= x

Min(S) == CHOOSE x \in S : \A y \in S : x <= y

\* s[i..] starts with p
HasPrefixAt(s, i, p) ==
    /\ i >= 1
    /\ i + Len(p) - 1 <= Len(s)
    /\ SubSeq(s, i, i + Len(p) - 1) = p

\* p occurs in s  (Python: p in s)
Contains(s, p) == \E i \in 1..(Len(s) + 1) : HasPrefixAt(s, i, p)

\* the first index k >= i with s[k] outside C, or Len(s)+1
RECURSIVE RunEnd(_, _, _)
RunEnd(s, i, C) ==
    IF i > Len(s) \/ s[i] \notin C THEN i ELSE RunEnd(s, i + 1, C)

RECURSIVE Concat(_)
Concat(ss) == IF ss = <<>> THEN <<>> ELSE Head(ss) \o Concat(Tail(ss))

\* all sequences over S of length at most n
SeqsUpTo(S, n) == UNION {[1..k -> S] : k \in 0..n}

-----------------------------------------------------------------------------
(* _sanitize_manim_code (get_illustration.py:126-159)                       *)

PlayMarker == <<"s","e","l","f",".","p","l","a","y","(">>

AnimateDot == <<"a","n","i","m","a","t","e",".">>

DotAnimateDot == <<".","a","n","i","m","a","t","e",".">>

DotSet == <<".","s","e","t","_">>

MotionNames == <<
    <<"m","o","v","e","_","t","o">>,
    <<"s","h","i","f","t">>,
    <<"s","c","a","l","e">>,
    <<"r","o","t","a","t","e">>,
    <<"n","e","x","t","_","t","o">>,
    <<"s","t","r","e","t","c","h">>,
    <<"t","o","_","e","d","g","e">>,
    <<"a","r","r","a","n","g","e">>,
    <<"a","l","i","g","n","_","t","o">> >>

\* (?<!animate\.) at position i: the text just before i is not "animate."
LookbehindOk(s, i) == ~HasPrefixAt(s, i - Len(AnimateDot), AnimateDot)

\* \.set_([A-Za-z0-9_]+)\( at position j: the index of the "(" or 0
SetTailAt(s, j) ==
    IF ~HasPrefixAt(s, j, DotSet) THEN 0
    ELSE LET k == RunEnd(s, j + Len(DotSet), WordChar)
         IN IF k > j + Len(DotSet) /\ k <= Len(s) /\ s[k] = "(" THEN k ELSE 0

\* \.(move_to|shift|...)\( at position j: the index of the "(" or 0
MotionTailAt(s, j) ==
    IF j > Len(s) \/ s[j] # "." THEN 0
    ELSE LET hits == {n \in DOMAIN MotionNames :
                        HasPrefixAt(s, j + 1, MotionNames[n] \o <<"(">>)}
         IN IF hits = {} THEN 0
            ELSE j + Len(MotionNames[Min(hits)]) + 1

\* The tail of either pattern at position j: kind is "set" or "motion"
TailAt(kind, s, j) ==
    IF kind = "set" THEN SetTailAt(s, j) ELSE MotionTailAt(s, j)

\* The pattern (?<!animate\.)(([A-Za-z_][A-Za-z0-9_\.]*)<tail>) tried at
\* position i, with TailAt(kind, s, j) the index of the closing "(" of a
\* tail that starts at j.  The object group is greedy: the longest one is taken.
\* Result: <<j, k>> (group 2 is s[i..j-1], the match ends at k) or <<0, 0>>.
MatchAt(kind, s, i) ==
    IF i > Len(s) \/ s[i] \notin IdentStart \/ ~LookbehindOk(s, i) THEN <<0, 0>>
    ELSE LET e  == RunEnd(s, i + 1, IdentChar)
             js == {j \in (i + 1)..e : TailAt(kind, s, j) # 0}
         IN IF js = {} THEN <<0, 0>> ELSE <<Max(js), TailAt(kind, s, Max(js))>>

\* re.sub of one pattern over a line, from position i: non-overlapping
\* matches, leftmost first; the replacement is group2 + ".animate." + rest
RECURSIVE ReSub(_, _, _)
ReSub(kind, s, i) ==
    IF i > Len(s) THEN <<>>
    ELSE LET m == MatchAt(kind, s, i)
         IN IF m[1] = 0 THEN <<s[i]>> \o ReSub(kind, s, i + 1)
            ELSE SubSeq(s, i, m[1] - 1) \o DotAnimateDot
                   \o SubSeq(s, m[1] + 1, m[2]) \o ReSub(kind, s, m[2] + 1)

replace_set_calls(line) == ReSub("set", line, 1)

replace_motion_calls(line) == ReSub("motion", line, 1)

\* str.splitlines() for text whose only line break is "\n"
RECURSIVE SplitLines(_)
SplitLines(s) ==
    IF s = <<>> THEN <<>>
    ELSE LET brk == {i \in 1..Len(s) : s[i] = "\n"}
         IN IF brk = {} THEN <<s>>
            ELSE <<SubSeq(s, 1, Min(brk) - 1)>>
                   \o SplitLines(SubSeq(s, Min(brk) + 1, Len(s)))

\* "\n".join(lines)
RECURSIVE JoinLines(_)
JoinLines(ls) ==
    IF ls = <<>> THEN <<>>
    ELSE IF Len(ls) = 1 THEN ls[1]
    ELSE ls[1] \o <<"\n">> \o JoinLines(Tail(ls))

SanitizeLine(line) ==
    IF Contains(line, PlayMarker)
    THEN replace_motion_calls(replace_set_calls(line))
    ELSE line

_sanitize_manim_code(code) ==
    LET ls == SplitLines(code)
    IN JoinLines([i \in DOMAIN ls |-> SanitizeLine(ls[i])])

-----------------------------------------------------------------------------
(* _extract_code_block (get_illustration.py:105-109)                        *)

\* the grave accent U+0060, which a TLA+ string literal cannot hold
Backtick == "GRAVE"

Fence == <<Backtick, Backtick, Backtick>>

PythonTag == <<"p","y","t","h","o","n">>

\* one character lower-cased (re.IGNORECASE, str.lower)
LowerChar(c) ==
    IF c \in Upper THEN LowerSeq[CHOOSE i \in DOMAIN UpperSeq : UpperSeq[i] = c]
    ELSE c

LowerText(s) == [i \in DOMAIN s |-> LowerChar(s[i])]

\* the value of a call that returned v, and of a call that raised
Returned(v) == [ok |-> TRUE, v |-> v]

Raised(e) == [ok |-> FALSE, v |-> e]

\* the positions at which a closing fence can be found from j on
ClosingFences(s, j) == {k \in j..Len(s) : HasPrefixAt(s, k, Fence)}

\* after the opening fence and the tag, which ends before j1: the ends of the
\* \s* runs after which the lazy group and the closing fence can still match
WhitespaceEnds(s, j1) ==
    {j2 \in j1..RunEnd(s, j1, Whitespace) : ClosingFences(s, j2) # {}}

\* The pattern  FENCE(?:python)?\s*(.*?)FENCE  tried at position i: <<start, end>> of group 1
\* (end = start - 1 for an empty group), or <<0, 0>> when there is no match
\* at i.  The optional tag and \s* are greedy and give back only when the rest
\* cannot match; (.*?) is lazy and stops at the first closing fence.
ExtractAt(s, i) ==
    IF ~HasPrefixAt(s, i, Fence) THEN <<0, 0>>
    ELSE LET j0     == i + Len(Fence)
             tagged == HasPrefixAt(LowerText(s), j0, PythonTag)
             j1     == IF tagged /\ WhitespaceEnds(s, j0 + Len(PythonTag)) # {}
                       THEN j0 + Len(PythonTag) ELSE j0
             ends   == WhitespaceEnds(s, j1)
         IN IF ends = {} THEN <<0, 0>>
            ELSE <<Max(ends), Min(ClosingFences(s, Max(ends))) - 1>>

\* str.lstrip and str.rstrip over the whitespace of the model's alphabet
LStrip(s) == SubSeq(s, RunEnd(s, 1, Whitespace), Len(s))

RECURSIVE RStrip(_)
RStrip(s) ==
    IF s # <<>> /\ s[Len(s)] \in Whitespace THEN RStrip(SubSeq(s, 1, Len(s) - 1))
    ELSE s

\* a variant that returns m.group(1).strip()
ExtractStripped(text) ==
    LET starts == {i \in 1..Len(text) : ExtractAt(text, i)[1] # 0}
    IN IF starts = {} THEN Raised("LLM did not return a Python code block.")
       ELSE LET g == ExtractAt(text, Min(starts))
            IN Returned(RStrip(SubSeq(text, g[1], g[2])))

\* re.search: the leftmost position with a match; group 1 of it, or RuntimeError
_extract_code_block(text) ==
    LET starts == {i \in 1..Len(text) : ExtractAt(text, i)[1] # 0}
    IN IF starts = {} THEN Raised("LLM did not return a Python code block.")
       ELSE LET g == ExtractAt(text, Min(starts))
            IN Returned(SubSeq(text, g[1], g[2]))

-----------------------------------------------------------------------------
(* Python values: None, str and bytes, with truthiness, "or" and "+".      *)

PyNone == [type |-> "NoneType", v |-> <<>>]

PyStr(s) == [type |-> "str", v |-> s]

PyBytes(s) == [type |-> "bytes", v |-> s]

Truthy(x) == x.type # "NoneType" /\ x.v # <<>>

\* a or b
PyOr(a, b) == IF Truthy(a) THEN a ELSE b

\* a + b: defined for two str (or two bytes), TypeError otherwise
PyAdd(a, b) ==
    IF a.type = b.type /\ a.type \in {"str", "bytes"}
    THEN Returned([type |-> a.type, v |-> a.v \o b.v])
    ELSE Raised("TypeError")

-----------------------------------------------------------------------------
(* compile_run_cpp (composio_tools.py:218-298)                              *)

DefaultTimeoutSec == 5

FallbackTimeoutSec == 5

MinTimeoutSec == 1

CompileFailExitCode == 1

TimeoutExitCode == 124

CompileCmds == <<"clang++", "/usr/bin/clang++",
                 "/opt/homebrew/opt/llvm/bin/clang++", "g++">>

CompilerNotFound == <<"C","+","+"," ","c","o","m","p","i","l","e","r"," ","n","o","t"," ","f","o","u","n","d"," ","(","g","+","+","/","c","l","a","n","g","+","+",")","."," ","I","n","s","t","a","l","l"," ","X","c","o","d","e"," ","C","o","m","m","a","n","d"," ","L","i","n","e"," ","T","o","o","l","s"," ","o","r"," ","G","C","C",".">>

TimedOutMarker == <<"\n","T","i","m","e","d"," ","o","u","t",".">>

\* CppRunRequest: timeout_sec is Optional[int] with default 5
CppRunRequest(body) ==
    [timeout_sec |-> IF body.has_timeout THEN body.timeout_sec
                     ELSE [type |-> "int", n |-> DefaultTimeoutSec]]

\* a variant without the clamp: int(req.timeout_sec or 5)
UnclampedTimeout(timeout_sec) ==
    IF timeout_sec.type = "int" /\ timeout_sec.n # 0 THEN timeout_sec.n
    ELSE FallbackTimeoutSec

\* max(1, int(req.timeout_sec or 5)): None and 0 are falsy
EffectiveTimeout(timeout_sec) ==
    LET chosen == IF timeout_sec.type = "int" /\ timeout_sec.n # 0
                  THEN timeout_sec.n ELSE FallbackTimeoutSec
    IN IF chosen < MinTimeoutSec THEN MinTimeoutSec ELSE chosen

JsonResponse(ok, stage, stdout, stderr, exit_code) ==
    [kind |-> "json", ok |-> ok, stage |-> stage, stdout |-> stdout,
     stderr |-> stderr, exit_code |-> exit_code]

\* raise HTTPException(status_code=500, ...) of the outer except
HttpError(status) == [kind |-> "http_error", status |-> status]

NoResponse == [kind |-> "none"]

NoRun == [state |-> "none"]

\* a variant of the loop that goes on to the next candidate after a success
NoBreak(idx) == idx + 1

\* break: the loop over compile_cmds is left
BreakLoop(idx) == Len(CompileCmds) + 1

\* a variant of the run response with "ok": True
RunResponseAlwaysOk(returncode, stdout, stderr) ==
    JsonResponse(TRUE, "run", stdout, stderr, returncode)

\* the response of a run that completed (lines 282-288)
RunResponse(returncode, stdout, stderr) ==
    JsonResponse(returncode = 0, "run", stdout, stderr, returncode)

\* the response of a run that timed out (lines 289-296); the concatenation
\* raises TypeError when e.stderr is non-empty bytes, which the outer except
\* turns into an HTTP 500
TimeoutResponse(e_stdout, e_stderr) ==
    LET stderr == PyAdd(PyOr(e_stderr, PyStr(<<>>)), PyStr(TimedOutMarker))
    IN IF stderr.ok
       THEN JsonResponse(FALSE, "run", PyOr(e_stdout, PyStr(<<>>)), stderr.v,
                         TimeoutExitCode)
       ELSE HttpError(500)

\* the response when no candidate compiled (lines 263-270)
CompileFailedResponse ==
    JsonResponse(FALSE, "compile", cppCompileOut.stdout,
                 PyOr(cppCompileOut.stderr, PyStr(CompilerNotFound)),
                 CompileFailExitCode)

-----------------------------------------------------------------------------
(* chat_with_tools and its local tool handlers (composio_tools.py:53-211).  *)
(* The texts of this endpoint are sequences of pieces (strings) whose       *)
(* concatenation is the text; the empty text is the empty sequence.         *)

PyList(items) == [type |-> "list", v |-> items]

RECURSIVE JoinComma(_)
JoinComma(items) ==
    IF items = <<>> THEN <<>>
    ELSE IF Len(items) = 1 THEN <<items[1]>>
    ELSE <<items[1], ", ">> \o JoinComma(Tail(items))

\* str(x) of None, a str, or a list of items given by their repr
Str(x) ==
    IF x.type = "NoneType" THEN <<"None">>
    ELSE IF x.type = "list" THEN <<"[">> \o JoinComma(x.v) \o <<"]">>
    ELSE x.v

\* a JSON value of a tool call's arguments: absent, a number, or a string
\* that is no number
Absent == [t |-> "absent", n |-> 0]

Num(n) == [t |-> "num", n |-> n]

NotANumber == [t |-> "str", n |-> 0]

\* args.get(key, 0) on the arguments object
ArgsGet(value) == IF value.t = "absent" THEN Num(0) ELSE value

\* float(x) and int(x): the number, or ValueError
ToNumber(value) ==
    IF value.t = "num" THEN Returned(value.n) ELSE Raised("ValueError")

\* str(float(n)) of a whole number
FloatStr(n) == <<ToString(n), ".0">>

\* json.loads(args_raw or "{}") with the except that falls back to {}:
\* kind "object" keeps its members, "invalid" and "empty" give {}, "array"
\* is valid JSON without .get
LoadArgs(args) ==
    IF args.kind \in {"invalid", "empty"}
    THEN [kind |-> "object", a |-> Absent, b |-> Absent, id |-> Absent]
    ELSE args

\* the first tool call that has a function of the given name, or 0
FirstCall(tool_calls, name) ==
    LET hits == {i \in DOMAIN tool_calls :
                    tool_calls[i].has_fn /\ tool_calls[i].name = name}
    IN IF hits = {} THEN 0 ELSE Min(hits)

\* completion.choices[0].message.tool_calls, or the empty list when there is
\* no choice (IndexError, caught) or no tool call
ToolCallsOf(completion) ==
    IF completion.choices = 0 \/ completion.tool_calls.type = "NoneType"
    THEN <<>> ELSE completion.tool_calls.v

\* _maybe_handle_local_sum_tool (lines 53-76): the text, or None
_maybe_handle_local_sum_tool(completion) ==
    LET calls == ToolCallsOf(completion)
        i     == FirstCall(calls, "sum_two_numbers")
    IN IF i = 0 THEN PyNone
       ELSE LET args == LoadArgs(calls[i].args)
            IN IF args.kind # "object" THEN PyNone
               ELSE LET a == ToNumber(ArgsGet(args.a))
                        b == ToNumber(ArgsGet(args.b))
                    IN IF ~a.ok \/ ~b.ok THEN PyNone
                       ELSE PyStr(<<"The sum of ">> \o FloatStr(a.v) \o <<" and ">>
                                    \o FloatStr(b.v) \o <<" is ">>
                                    \o FloatStr(a.v + b.v) \o <<".">>)

PreviewLimit == 800

\* the markdown summary of a row (lines 124-139); the preview is cut at 800
\* characters, which no row of the model reaches
ProblemSummary(problem_id, row) ==
    LET question == IF row.question = <<>> THEN <<"(no question)">> ELSE row.question
        markdown == IF row.markdown # <<>> THEN row.markdown ELSE row.answer
        preview  == IF Len(markdown) > PreviewLimit
                    THEN SubSeq(markdown, 1, PreviewLimit) \o <<"...">>
                    ELSE markdown
    IN <<"## Problem ", ToString(problem_id), ": ">> \o question \o <<"\n\n">>
         \o <<"**Summary:**\n\n">> \o preview \o <<"\n\n">>
         \o (IF row.code # <<>>
             THEN <<"---\n**Code Example:**\n\n", "cpp fence", "\n">> \o row.code
                    \o <<"\n", "fence", "\n\n">>
             ELSE <<>>)
         \o (IF row.explanation # <<>>
             THEN <<"---\n**Explanation:**\n\n">> \o row.explanation \o <<"\n">>
             ELSE <<>>)

\* _maybe_handle_local_problem_tool (lines 97-144) with the outcome db of the
\* record lookup: the text, or None
_maybe_handle_local_problem_tool(completion, db) ==
    LET calls == ToolCallsOf(completion)
        i     == FirstCall(calls, "get_problem_by_id")
    IN IF i = 0 THEN PyNone
       ELSE LET args == LoadArgs(calls[i].args)
            IN IF args.kind # "object" THEN PyNone
               ELSE LET id == ToNumber(ArgsGet(args.id))
                    IN IF ~id.ok THEN PyNone
                       ELSE IF id.v <= 0
                       THEN PyStr(<<"I need a valid positive problem id to fetch details.">>)
                       ELSE IF db.outcome = "raised"
                       THEN PyStr(<<"An error occurred while fetching the problem: ", "error">>)
                       ELSE IF db.rows = <<>>
                       THEN PyStr(<<"I could not find a problem with id ",
                                    ToString(id.v), ".">>)
                       ELSE PyStr(ProblemSummary(id.v, db.rows[1]))

\* the raw assistant message: choice.message.content when it is truthy
RawContent(completion) ==
    IF completion.choices # 0 /\ Truthy(completion.content)
    THEN completion.content ELSE PyNone

\* a variant that prefers the provider's result to the model's content
ProviderFirstText(completion, result, local_text) ==
    LET assistant_text == IF result.type # "NoneType" THEN PyStr(Str(result))
                          ELSE IF Truthy(RawContent(completion))
                          THEN RawContent(completion) ELSE PyStr(<<>>)
    IN IF Truthy(local_text) THEN local_text ELSE assistant_text

\* a variant that lets the model's content win over the local text
ContentFirstText(completion, result, local_text) ==
    IF Truthy(RawContent(completion)) THEN RawContent(completion)
    ELSE IF Truthy(local_text) THEN local_text
    ELSE PyStr(Str(result))

\* lines 184-202: the content if any, else str(result); the local text wins
AssistantText(completion, result, local_text) ==
    LET assistant_text == IF Truthy(RawContent(completion))
                          THEN RawContent(completion)
                          ELSE PyStr(Str(result))
    IN IF Truthy(local_text) THEN local_text ELSE assistant_text

ChatResponse(assistant_text, result, completion) ==
    [kind |-> "json", ok |-> TRUE, assistant_text |-> assistant_text,
     result |-> result, raw |-> completion]

-----------------------------------------------------------------------------
(* _slug, _short_hash and the storage key (get_illustration.py:15-21, 218)  *)

\* [a-z0-9\-]
SlugChar == Lower \cup Digits \cup {"-"}

\* re.sub(r"[^a-z0-9\-]+", "-", s): every maximal run of other characters
\* becomes one "-"
RECURSIVE SquashRuns(_, _)
SquashRuns(s, i) ==
    IF i > Len(s) THEN <<>>
    ELSE IF s[i] \in SlugChar THEN <<s[i]>> \o SquashRuns(s, i + 1)
    ELSE <<"-">> \o SquashRuns(s, RunEnd(s, i, {c \in Range(s) : c \notin SlugChar}))

\* str.strip("-")
StripDashes(s) ==
    LET keep == {i \in DOMAIN s : s[i] # "-"}
    IN IF keep = {} THEN <<>> ELSE SubSeq(s, Min(keep), Max(keep))

_slug(s) == StripDashes(SquashRuns(LowerText(s), 1))

\* the characters of the model's texts, numbered
Alphabet == LowerSeq \o UpperSeq \o DigitSeq
              \o <<" ","_",".","(",")","=","*",":","\n",",","!","/","+","-">>

CharCode(c) ==
    IF c \in Range(Alphabet) THEN CHOOSE i \in DOMAIN Alphabet : Alphabet[i] = c
    ELSE 0

HashModulus == 4096

HashMultiplier == 31

\* the polynomial digest of s[lo..hi] as <<value, HashMultiplier^length>>,
\* both modulo HashModulus, computed by halves
RECURSIVE Digest(_, _, _)
Digest(s, lo, hi) ==
    IF lo > hi THEN <<0, 1>>
    ELSE IF lo = hi THEN <<CharCode(s[lo]), HashMultiplier>>
    ELSE LET mid   == (lo + hi) \div 2
             left  == Digest(s, lo, mid)
             right == Digest(s, mid + 1, hi)
         IN <<(left[1] * right[2] + right[1]) % HashModulus,
              (left[2] * right[2]) % HashModulus>>

\* _short_hash: the digest of the text.  SHA-256 cut to 8 bytes is stood for
\* by a 12-bit polynomial digest of the characters: a function of the text
\* alone, as the source's is, with collisions of its own.
_short_hash(s) == <<ToString(Digest(s, 1, Len(s))[1])>>

\* a variant of the key that files the object under the request's bucket
StorageKeyPerBucket(question, code, bucket) ==
    <<"algo-viz/">> \o bucket \o <<"/">> \o _slug(question) \o <<"/">>
        \o _short_hash(code) \o <<".mp4">>

\* line 218: f"algo-viz/{_slug(question)}/{_short_hash(code)}.mp4"; the
\* request's bucket is at hand and plays no part
StorageKey(question, code, bucket) ==
    <<"algo-viz/">> \o _slug(question) \o <<"/">> \o _short_hash(code) \o <<".mp4">>

-----------------------------------------------------------------------------
(* _validate_manim_code (get_illustration.py:112-123)                       *)

MinWaits == 8

SkipWs(s, i) == RunEnd(s, i, Whitespace)

\* color\s*=\s*[-+]?\d+(\.\d+)? matches somewhere
NumericColor(code) ==
    \E i \in 1..Len(code) :
        /\ HasPrefixAt(code, i, <<"c","o","l","o","r">>)
        /\ LET e == SkipWs(code, i + 5)
           IN /\ e <= Len(code)
              /\ code[e] = "="
              /\ LET d == SkipWs(code, e + 1)
                     n == IF d <= Len(code) /\ code[d] \in {"-", "+"} THEN d + 1 ELSE d
                 IN n <= Len(code) /\ code[n] \in Digits

\* \bself\.wait\(\s*2\s*\) matches at position i
WaitAt(code, i) ==
    /\ HasPrefixAt(code, i, <<"s","e","l","f",".","w","a","i","t","(">>)
    /\ (i = 1 \/ code[i - 1] \notin WordChar)
    /\ LET d == SkipWs(code, i + 10)
       IN /\ d <= Len(code)
          /\ code[d] = "2"
          /\ SkipWs(code, d + 1) <= Len(code)
          /\ code[SkipWs(code, d + 1)] = ")"

\* len(re.findall(...)): the matches cannot overlap
CountWaits(code) == Cardinality({i \in 1..Len(code) : WaitAt(code, i)})

RECURSIVE JoinSemicolon(_)
JoinSemicolon(problems) ==
    IF problems = <<>> THEN <<>>
    ELSE IF Len(problems) = 1 THEN problems[1]
    ELSE problems[1] \o <<"; ">> \o JoinSemicolon(Tail(problems))

_validate_manim_code(code) ==
    LET waits == CountWaits(code)
        problems ==
            (IF ~Contains(code, <<"c","l","a","s","s"," ","A","l","g","o","V","i","z","S","c","e","n","e">>)
             THEN << <<"AlgoVizScene class missing">> >> ELSE <<>>)
         \o (IF ~Contains(code, <<"f","r","o","m"," ","m","a","n","i","m"," ","i","m","p","o","r","t"," ","*">>)
             THEN << <<"Missing 'from manim import *'">> >> ELSE <<>>)
         \o (IF NumericColor(code)
             THEN << <<"Numeric passed to color= is not allowed">> >> ELSE <<>>)
         \o (IF waits < MinWaits
             THEN << <<"Only ", ToString(waits),
                       " calls to self.wait(2). Prefer 8 or more">> >>
             ELSE <<>>)
    IN IF problems = <<>> THEN PyNone ELSE PyStr(JoinSemicolon(problems))

\* build_prompt_from_markdown (lines 72-102): the fixed template around the
\* question and the markdown
build_prompt_from_markdown(question, markdown) ==
    <<"You are a senior Manim Community Edition developer. ... QUESTION:\n">>
        \o question \o <<"\n\nMARKDOWN:\n">> \o markdown
        \o <<"\n\nReturn only one Python code block defining AlgoVizScene ...">>

-----------------------------------------------------------------------------
(* get_illustration (get_illustration.py:162-226): responses and calls.     *)

\* raise HTTPException(status_code=..., detail=...)
HTTPException(status, detail) ==
    [kind |-> "http_error", status |-> status, detail |-> detail]

\* line 210: result = {"question": question, "code": code, "warning": warning}
IllResult(question, code, warning) ==
    [kind |-> "json", fields |-> {"question", "code", "warning"},
     question |-> question, code |-> code, warning |-> warning,
     video_url |-> PyNone, storage_key |-> <<>>, render_error |-> <<>>]

\* line 222: result.update({"video_url": signed_url, "storage_key": key})
WithVideo(result, signed_url, key) ==
    [result EXCEPT !.fields = @ \cup {"video_url", "storage_key"},
                   !.video_url = signed_url, !.storage_key = key]

\* a variant without the try: the failure of a stage fails the request
StageFailurePropagates(result, e) == HTTPException(500, <<"Internal Server Error">>)

\* lines 223-224: result.update({"render_error": str(e)})
WithRenderError(result, e) ==
    [result EXCEPT !.fields = @ \cup {"render_error"}, !.render_error = e]

\* a variant in which a validator warning blocks the rendering
RenderOnlyIfValid(render, warning) ==
    IF render /\ warning = PyNone THEN "render" ELSE "done"

\* lines 208-212: the warning is kept for the answer and decides nothing;
\* the render flag alone opens the rendering stages
AfterValidation(render, warning) == IF render THEN "render" ELSE "done"

\* one external call: the record lookup, the language model, the renderer
\* subprocess, the storage upload or the signed-URL request
Call(name, bucket, key, text) ==
    [call |-> name, bucket |-> bucket, key |-> key, text |-> text, raised |-> FALSE]

\* the same call when it raises instead of returning
Failing(call) == [call EXCEPT !.raised = TRUE]

\* line 220: the bucket the artifact is uploaded to and signed in
UploadBucket(bucket) == <<"illustrations">>

-----------------------------------------------------------------------------
(* The state of a pipeline that a specification does not exercise.         *)

NoValue == [ok |-> FALSE, v |-> "not called"]

ExtIdle ==
    /\ extPc = "idle"
    /\ extText = <<>>
    /\ extOut = NoValue

CppIdle ==
    /\ cppPc = "idle"
    /\ cppBody = [has_timeout |-> FALSE, timeout_sec |-> PyNone]
    /\ cppIdx = 0
    /\ cppCompileOk = FALSE
    /\ cppCompileOut = [stdout |-> PyStr(<<>>), stderr |-> PyStr(<<>>)]
    /\ cppInvoked = <<>>
    /\ cppRun = NoRun
    /\ cppResp = NoResponse

NoCompletion ==
    [choices |-> 0, content |-> PyNone, tool_calls |-> PyNone]

ChatIdle ==
    /\ chatPc = "idle"
    /\ chatCompletion = NoCompletion
    /\ chatResult = PyNone
    /\ chatLocalText = PyNone
    /\ chatResp = NoResponse

\* no row is held: rows = [] (line 177); a row of the table has an id
NoRow == [id |-> <<>>, question |-> <<>>, markdown |-> <<>>, answer |-> <<>>]

NoRequest == [id |-> <<>>, render |-> FALSE, bucket |-> <<>>]

IllIdle ==
    /\ illPc = "idle"
    /\ illReq = NoRequest
    /\ illRow = NoRow
    /\ illRaw = PyNone
    /\ illCode = <<>>
    /\ illWarning = PyNone
    /\ illKey = <<>>
    /\ illCalls = <<>>
    /\ illResp = NoResponse
    /\ illCount = 0
    /\ illHistory = {}

-----------------------------------------------------------------------------
(* The sanitizer applied once and then again to its own output.            *)

MaxSanLexemes == 4

SanLexemes == {
    PlayMarker,
    <<"o","b","j">>,
    <<".","a","n","i","m","a","t","e">>,
    <<".","s","e","t","_","x","(">>,
    <<".","m","o","v","e","_","t","o","(">>,
    <<")">>,
    <<"\n">> }

SanInputs == {Concat(ls) : ls \in SeqsUpTo(SanLexemes, MaxSanLexemes)}

SanIdle ==
    /\ sanPc = "idle"
    /\ sanCode = <<>>
    /\ sanOnce = <<>>
    /\ sanTwice = <<>>

InitSan ==
    /\ sanPc = "start"
    /\ sanCode \in SanInputs
    /\ sanOnce = <<>>
    /\ sanTwice = <<>>
    /\ ExtIdle
    /\ CppIdle
    /\ ChatIdle
    /\ IllIdle

SanitizeOnce ==
    /\ sanPc = "start"
    /\ sanOnce' = _sanitize_manim_code(sanCode)
    /\ sanPc' = "once"
    /\ UNCHANGED <<sanCode, sanTwice, extVars, cppVars, chatVars, illVars>>

SanitizeTwice ==
    /\ sanPc = "once"
    /\ sanTwice' = _sanitize_manim_code(sanOnce)
    /\ sanPc' = "twice"
    /\ UNCHANGED <<sanCode, sanOnce, extVars, cppVars, chatVars, illVars>>

NextSan == SanitizeOnce \/ SanitizeTwice

SpecSan == InitSan /\ [][NextSan]_vars

-----------------------------------------------------------------------------
(* The extractor applied to a model response.                              *)

MaxTextLexemes == 5

TextLexemes == {Fence, PythonTag, <<"\n">>, <<" ">>, <<"x">>}

TextInputs == {Concat(ls) : ls \in SeqsUpTo(TextLexemes, MaxTextLexemes)}

InitExt ==
    /\ extPc = "start"
    /\ extText \in TextInputs
    /\ extOut = NoValue
    /\ SanIdle
    /\ CppIdle
    /\ ChatIdle
    /\ IllIdle

Extract ==
    /\ extPc = "start"
    /\ extOut' = _extract_code_block(extText)
    /\ extPc' = "done"
    /\ UNCHANGED <<extText, sanVars, cppVars, chatVars, illVars>>

NextExt == Extract

SpecExt == InitExt /\ [][NextExt]_vars

-----------------------------------------------------------------------------
(* One request to POST /api/compile-run-cpp.                                *)

MaxTimeoutSec == 6

MaxNegTimeout == 2

MaxRunSeconds == 6

MaxExitCode == 2

TimeoutSecs == (0 - MaxNegTimeout)..MaxTimeoutSec

\* request bodies: timeout_sec absent, null or an integer
CppBodies ==
    {[has_timeout |-> FALSE, timeout_sec |-> PyNone],
     [has_timeout |-> TRUE, timeout_sec |-> PyNone]}
    \cup {[has_timeout |-> TRUE, timeout_sec |-> [type |-> "int", n |-> n]] :
            n \in TimeoutSecs}

\* what a process may have written to a stream
Outputs == {<<>>, <<"o","u","t">>}

Diagnostics == {<<>>, <<"e","r","r">>}

InitCpp ==
    /\ cppPc = "start"
    /\ cppBody \in CppBodies
    /\ cppIdx = 0
    /\ cppCompileOk = FALSE
    /\ cppCompileOut = [stdout |-> PyStr(<<>>), stderr |-> PyStr(<<>>)]
    /\ cppInvoked = <<>>
    /\ cppRun = NoRun
    /\ cppResp = NoResponse
    /\ SanIdle
    /\ ExtIdle
    /\ ChatIdle
    /\ IllIdle

\* lines 228-244: the source is written, the loop starts at the first candidate
CppStart ==
    /\ cppPc = "start"
    /\ cppPc' = "compile"
    /\ cppIdx' = 1
    /\ UNCHANGED <<cppBody, cppCompileOk, cppCompileOut, cppInvoked, cppRun,
                   cppResp, sanVars, extVars, chatVars, illVars>>

InLoop == cppPc = "compile" /\ cppIdx \in DOMAIN CompileCmds

Invoked(outcome) ==
    Append(cppInvoked, [cmd |-> CompileCmds[cppIdx], outcome |-> outcome])

\* lines 259-261: FileNotFoundError, the next candidate is tried
CompilerMissing ==
    /\ InLoop
    /\ cppInvoked' = Invoked("missing")
    /\ cppIdx' = cppIdx + 1
    /\ UNCHANGED <<cppPc, cppBody, cppCompileOk, cppCompileOut, cppRun, cppResp,
                   sanVars, extVars, chatVars, illVars>>

\* lines 247-256: the candidate ran and exited non-zero
CompilerFails ==
    /\ InLoop
    /\ \E out \in Outputs, err \in Diagnostics :
         cppCompileOut' = [stdout |-> PyStr(out), stderr |-> PyStr(err)]
    /\ cppInvoked' = Invoked("nonzero")
    /\ cppIdx' = cppIdx + 1
    /\ UNCHANGED <<cppPc, cppBody, cppCompileOk, cppRun, cppResp, sanVars, extVars, chatVars, illVars>>

\* lines 247-258: the candidate exited 0
CompilerSucceeds ==
    /\ InLoop
    /\ \E out \in Outputs, err \in Diagnostics :
         cppCompileOut' = [stdout |-> PyStr(out), stderr |-> PyStr(err)]
    /\ cppInvoked' = Invoked("ok")
    /\ cppCompileOk' = TRUE
    /\ cppIdx' = BreakLoop(cppIdx)
    /\ UNCHANGED <<cppPc, cppBody, cppRun, cppResp, sanVars, extVars, chatVars, illVars>>

\* line 252, lines 297-298: subprocess.TimeoutExpired is not caught in the
\* loop, the outer except answers with an HTTP 500
CompilerTimesOut ==
    /\ InLoop
    /\ cppInvoked' = Invoked("timeout")
    /\ cppResp' = HttpError(500)
    /\ cppPc' = "done"
    /\ UNCHANGED <<cppBody, cppIdx, cppCompileOk, cppCompileOut, cppRun,
                   sanVars, extVars, chatVars, illVars>>

LoopDone == cppPc = "compile" /\ cppIdx > Len(CompileCmds)

\* lines 263-270
CompileFailed ==
    /\ LoopDone
    /\ ~cppCompileOk
    /\ cppResp' = CompileFailedResponse
    /\ cppPc' = "done"
    /\ UNCHANGED <<cppBody, cppIdx, cppCompileOk, cppCompileOut, cppInvoked,
                   cppRun, sanVars, extVars, chatVars, illVars>>

\* lines 272-288: the binary ends after dur seconds, within the timeout
RunCompletes ==
    /\ LoopDone
    /\ cppCompileOk
    /\ LET timeout == EffectiveTimeout(CppRunRequest(cppBody).timeout_sec)
       IN \E dur \in 1..MaxRunSeconds, code \in 0..MaxExitCode,
             out \in Outputs, err \in Diagnostics :
            /\ dur <= timeout
            /\ cppRun' = [state |-> "completed", timeout |-> timeout,
                          dur |-> dur, returncode |-> code, out |-> out,
                          err |-> err]
            /\ cppResp' = RunResponse(code, PyStr(out), PyStr(err))
    /\ cppPc' = "done"
    /\ UNCHANGED <<cppBody, cppIdx, cppCompileOk, cppCompileOut, cppInvoked,
                   sanVars, extVars, chatVars, illVars>>

\* what subprocess.TimeoutExpired carries for a stream: on POSIX the bytes
\* read so far, or None when nothing was read, whatever text= says; on
\* Windows the decoded text
Captured(platform, written) ==
    IF platform = "windows" THEN PyStr(written)
    ELSE IF written = <<>> THEN PyNone ELSE PyBytes(written)

\* lines 272-281, 289-296: the binary is still running when the timeout ends
RunTimesOut ==
    /\ LoopDone
    /\ cppCompileOk
    /\ LET timeout == EffectiveTimeout(CppRunRequest(cppBody).timeout_sec)
       IN \E platform \in {"posix", "windows"}, out \in Outputs, err \in Diagnostics :
            /\ cppRun' = [state |-> "timeout", timeout |-> timeout,
                          platform |-> platform, out |-> out, err |-> err]
            /\ cppResp' = TimeoutResponse(Captured(platform, out),
                                          Captured(platform, err))
    /\ cppPc' = "done"
    /\ UNCHANGED <<cppBody, cppIdx, cppCompileOk, cppCompileOut, cppInvoked,
                   sanVars, extVars, chatVars, illVars>>

NextCpp ==
    \/ CppStart
    \/ CompilerMissing
    \/ CompilerFails
    \/ CompilerSucceeds
    \/ CompilerTimesOut
    \/ CompileFailed
    \/ RunCompletes
    \/ RunTimesOut

SpecCpp == InitCpp /\ [][NextCpp]_vars

-----------------------------------------------------------------------------
(* One request to POST /api/tools/chat.                                     *)

MaxToolCalls == 2

MaxArg == 1

ArgValues == {Absent, NotANumber} \cup {Num(n) : n \in 0..MaxArg}

NoArgs == [kind |-> "empty", a |-> Absent, b |-> Absent, id |-> Absent]

\* the arguments of a tool call, as json.loads finds them: no JSON, a JSON
\* array, or an object with the members the tool reads
ArgsOf(name) ==
    {[kind |-> k, a |-> Absent, b |-> Absent, id |-> Absent] :
        k \in {"invalid", "array"}}
    \cup (IF name = "sum_two_numbers"
          THEN {[kind |-> "object", a |-> a, b |-> Num(1), id |-> Absent] :
                  a \in ArgValues}
          ELSE {[kind |-> "object", a |-> Absent, b |-> Absent, id |-> id] :
                  id \in ArgValues})

ToolCalls ==
    {[has_fn |-> FALSE, name |-> "", args |-> NoArgs],
     [has_fn |-> TRUE, name |-> "HACKERNEWS_GET_USER", args |-> NoArgs]}
    \cup UNION {{[has_fn |-> TRUE, name |-> n, args |-> args] : args \in ArgsOf(n)} :
                  n \in {"sum_two_numbers", "get_problem_by_id"}}

Contents == {PyNone, PyStr(<<>>), PyStr(<<"Hello">>)}

Completions ==
    {NoCompletion}
    \cup {[choices |-> 1, content |-> c, tool_calls |-> tc] :
            c \in Contents,
            tc \in {PyNone} \cup {PyList(s) : s \in SeqsUpTo(ToolCalls, MaxToolCalls)}}

\* what composio.provider.handle_tool_calls returns: a list of tool outputs
ProviderResults == {PyList(<<>>), PyList(<<"{'successful': True}">>)}

Rows ==
    {[question |-> q, markdown |-> m, answer |-> <<"answer">>, code |-> c,
      explanation |-> <<>>] :
        q \in {<<>>, <<"Two Sum">>}, m \in {<<>>, <<"markdown">>},
        c \in {<<"int main(){}">>}}

DbOutcomes ==
    {[outcome |-> "raised", rows |-> <<>>], [outcome |-> "returned", rows |-> <<>>]}
    \cup {[outcome |-> "returned", rows |-> <<r>>] : r \in Rows}

InitChat ==
    /\ chatPc = "start"
    /\ chatCompletion = NoCompletion
    /\ chatResult = PyNone
    /\ chatLocalText = PyNone
    /\ chatResp = NoResponse
    /\ SanIdle
    /\ ExtIdle
    /\ CppIdle
    /\ IllIdle

\* lines 150-168: the tool schemas are fetched and the model answers
CreateCompletion ==
    /\ chatPc = "start"
    /\ chatCompletion' \in Completions
    /\ chatPc' = "provider"
    /\ UNCHANGED <<chatResult, chatLocalText, chatResp, sanVars, extVars, cppVars,
                   illVars>>

\* lines 150-168, 210-211: composio.tools.get or the model call raises
UpstreamFails ==
    /\ chatPc = "start"
    /\ chatResp' = HttpError(500)
    /\ chatPc' = "done"
    /\ UNCHANGED <<chatCompletion, chatResult, chatLocalText, sanVars, extVars,
                   cppVars, illVars>>

\* lines 171-174: the provider handles the tool calls
ProviderReturns ==
    /\ chatPc = "provider"
    /\ chatResult' \in ProviderResults
    /\ chatPc' = "local_sum"
    /\ UNCHANGED <<chatCompletion, chatLocalText, chatResp, sanVars, extVars,
                   cppVars, illVars>>

\* lines 175-177: the provider raises, result = None
ProviderRaises ==
    /\ chatPc = "provider"
    /\ chatResult' = PyNone
    /\ chatPc' = "local_sum"
    /\ UNCHANGED <<chatCompletion, chatLocalText, chatResp, sanVars, extVars,
                   cppVars, illVars>>

\* line 180
LocalSum ==
    /\ chatPc = "local_sum"
    /\ chatLocalText' = _maybe_handle_local_sum_tool(chatCompletion)
    /\ chatPc' = "local_problem"
    /\ UNCHANGED <<chatCompletion, chatResult, chatResp, sanVars, extVars, cppVars,
                   illVars>>

\* lines 181-182: the problem tool is tried when the sum tool gave no text
LocalProblem ==
    /\ chatPc = "local_problem"
    /\ IF Truthy(chatLocalText) THEN UNCHANGED chatLocalText
       ELSE \E db \in DbOutcomes :
              chatLocalText' = _maybe_handle_local_problem_tool(chatCompletion, db)
    /\ chatPc' = "respond"
    /\ UNCHANGED <<chatCompletion, chatResult, chatResp, sanVars, extVars, cppVars,
                   illVars>>

\* lines 184-209
Respond ==
    /\ chatPc = "respond"
    /\ chatResp' = ChatResponse(
                      AssistantText(chatCompletion, chatResult, chatLocalText),
                      chatResult, chatCompletion)
    /\ chatPc' = "done"
    /\ UNCHANGED <<chatCompletion, chatResult, chatLocalText, sanVars, extVars,
                   cppVars, illVars>>

NextChat ==
    \/ CreateCompletion
    \/ UpstreamFails
    \/ ProviderReturns
    \/ ProviderRaises
    \/ LocalSum
    \/ LocalProblem
    \/ Respond

SpecChat == InitChat /\ [][NextChat]_vars

-----------------------------------------------------------------------------
(* Requests to GET /api/get-illustration, one after the other.              *)

MaxRequests == 2

Buckets == {<<"illustrations">>, <<"private">>}

Requests == {[id |-> <<"135">>, render |-> r, bucket |-> b] :
                r \in BOOLEAN, b \in Buckets}

\* rows of the problems table: question, markdown and answer may be missing
IllRows ==
    {[id |-> <<"135">>, question |-> q, markdown |-> m, answer |-> a] :
        q \in {<<>>, <<"T","w","o"," ","S","u","m">>,
               <<"t","w","o"," ","s","u","m","!">>},
        m \in {<<>>, <<"markdown">>},
        a \in {<<>>, <<"answer">>}}

MoveLine == <<"s","e","l","f",".","p","l","a","y","(","o","b","j",".","m","o","v","e","_","t","o","(","x",")",")","\n">>

ColorLine == <<"c"," ","="," ","C","i","r","c","l","e","(","c","o","l","o","r"," ","="," ","3",")","\n">>

WaitLine == <<" "," ","s","e","l","f",".","w","a","i","t","(","2",")","\n">>

SceneHead ==
    <<"f","r","o","m"," ","m","a","n","i","m"," ","i","m","p","o","r","t"," ","*">>
    \o <<"\n">>
    \o <<"c","l","a","s","s"," ","A","l","g","o","V","i","z","S","c","e","n","e">>
    \o <<"(","S","c","e","n","e",")",":","\n"," ","d","e","f"," ","c","o","n","s","t","r","u","c","t","(","s","e","l","f",")",":","\n">>
    \o <<" "," ","s","e","l","f",".","p","l","a","y","(","o","b","j",".","a","n","i","m","a","t","e",".","s","h","i","f","t","(","U","P",")",")","\n">>

\* a complete scene: the import, the class and eight calls of self.wait(2)
FullScene ==
    SceneHead \o WaitLine \o WaitLine \o WaitLine \o WaitLine
              \o WaitLine \o WaitLine \o WaitLine \o WaitLine

\* what the language model may answer: nothing, prose without a block, and
\* blocks (tagged or not, with or without prose and blank lines around them)
RawResponses ==
    {PyNone,
     PyStr(<<"S","o","r","r","y",","," ","n","o"," ","c","o","d","e",".">>),
     PyStr(Fence \o PythonTag \o <<"\n">> \o MoveLine \o Fence),
     PyStr(<<"H","e","r","e",":","\n">> \o Fence \o <<"\n","\n"," ">> \o MoveLine
             \o Fence \o <<"\n">>),
     PyStr(Fence \o PythonTag \o <<"\n">> \o MoveLine \o ColorLine \o Fence),
     PyStr(Fence \o PythonTag \o <<"\n">> \o FullScene \o Fence)}

\* what the signed-URL response carries under "signedURL" or "signed_url"
SignedUrls == {PyNone, PyStr(<<"https://storage/signed">>)}

\* str(e) of what a stage raises
RenderFailures == {<<"Command '['manim', ...]' returned non-zero exit status 1.">>,
                   <<"Manim output missing: ", "media/videos/scene/720p30/illustration.mp4">>}

StorageFailures == {<<"storage error">>}

\* The pure stages, evaluated once for the texts of the model.
RawTexts == {PyOr(content, PyStr(<<>>)).v : content \in RawResponses}

Extracted == [text \in RawTexts |-> _extract_code_block(text)]

Codes == {Extracted[text].v : text \in {x \in RawTexts : Extracted[x].ok}}

Warnings == [code \in Codes |-> _validate_manim_code(code)]

SafeCodes == [code \in Codes |-> _sanitize_manim_code(code)]

Questions == {row.question : row \in IllRows}

Slugs == [question \in Questions |-> _slug(question)]

Hashes == [code \in Codes |-> _short_hash(code)]

Keys == [question \in Questions |-> [code \in Codes |-> [bucket \in Buckets |->
            StorageKey(question, code, bucket)]]]

InitIll ==
    /\ IllIdle
    /\ SanIdle
    /\ ExtIdle
    /\ CppIdle
    /\ ChatIdle

NoOther == UNCHANGED <<sanVars, extVars, cppVars, chatVars>>

\* a request arrives (lines 162-168); requests are served one after another
IllReceive ==
    /\ illPc \in {"idle", "done"}
    /\ illCount < MaxRequests
    /\ illReq' \in Requests
    /\ illCount' = illCount + 1
    /\ illPc' = "lookup"
    /\ illRow' = NoRow
    /\ illRaw' = PyNone
    /\ illCode' = <<>>
    /\ illWarning' = PyNone
    /\ illKey' = <<>>
    /\ illCalls' = <<>>
    /\ illResp' = NoResponse
    /\ UNCHANGED illHistory
    /\ NoOther

Lookup == Call("lookup", <<>>, <<>>, illReq.id)

\* lines 170-175: the query raises
LookupRaises ==
    /\ illPc = "lookup"
    /\ illCalls' = Append(illCalls, Failing(Lookup))
    /\ illResp' = HTTPException(500, <<"Supabase query failed">>)
    /\ illPc' = "done"
    /\ UNCHANGED <<illReq, illRow, illRaw, illCode, illWarning, illKey, illCount,
                   illHistory>>
    /\ NoOther

\* lines 177-179: no row
LookupEmpty ==
    /\ illPc = "lookup"
    /\ illCalls' = Append(illCalls, Lookup)
    /\ illResp' = HTTPException(404, <<"Problem not found">>)
    /\ illPc' = "done"
    /\ UNCHANGED <<illReq, illRow, illRaw, illCode, illWarning, illKey, illCount,
                   illHistory>>
    /\ NoOther

\* a variant that never finds the text missing
MarkdownOrPlaceholder(row) ==
    IF row.markdown # <<>> THEN row.markdown
    ELSE IF row.answer # <<>> THEN row.answer ELSE <<"(no text)">>

\* row.get("markdown") or row.get("answer") or ""
MarkdownOf(row) == IF row.markdown # <<>> THEN row.markdown ELSE row.answer

\* lines 181-187: a row with neither markdown nor answer
LookupMissingText ==
    /\ illPc = "lookup"
    /\ \E row \in IllRows :
         /\ row.id = illReq.id
         /\ MarkdownOf(row) = <<>>
         /\ illRow' = row
    /\ illCalls' = Append(illCalls, Lookup)
    /\ illResp' = HTTPException(400, <<"Problem row missing markdown/explanation">>)
    /\ illPc' = "done"
    /\ UNCHANGED <<illReq, illRaw, illCode, illWarning, illKey, illCount, illHistory>>
    /\ NoOther

\* lines 181-190: a row with text; the prompt is built from it
LookupFound ==
    /\ illPc = "lookup"
    /\ \E row \in IllRows :
         /\ row.id = illReq.id
         /\ MarkdownOf(row) # <<>>
         /\ illRow' = row
    /\ illCalls' = Append(illCalls, Lookup)
    /\ illPc' = "llm"
    /\ UNCHANGED <<illReq, illRaw, illCode, illWarning, illKey, illResp, illCount,
                   illHistory>>
    /\ NoOther

Llm == Call("llm", <<>>, <<>>,
            build_prompt_from_markdown(illRow.question, MarkdownOf(illRow)))

\* lines 193-204: the model call raises; nothing catches it
LlmRaises ==
    /\ illPc = "llm"
    /\ illCalls' = Append(illCalls, Failing(Llm))
    /\ illResp' = HTTPException(500, <<"Internal Server Error">>)
    /\ illPc' = "done"
    /\ UNCHANGED <<illReq, illRow, illRaw, illCode, illWarning, illKey, illCount,
                   illHistory>>
    /\ NoOther

\* lines 193-212: the model answers; the block is extracted and validated,
\* and the request ends here unless it asks for a rendering
LlmReturns ==
    /\ illPc = "llm"
    /\ illCalls' = Append(illCalls, Llm)
    /\ \E content \in RawResponses :
         LET raw  == PyOr(content, PyStr(<<>>))
             code == Extracted[raw.v]
         IN /\ illRaw' = raw
            /\ IF ~code.ok
               THEN /\ illResp' = HTTPException(500, <<"Internal Server Error">>)
                    /\ illPc' = "done"
                    /\ UNCHANGED <<illCode, illWarning>>
               ELSE /\ illCode' = code.v
                    /\ illWarning' = Warnings[code.v]
                    /\ illResp' = IllResult(illRow.question, code.v,
                                            Warnings[code.v])
                    /\ illPc' = AfterValidation(illReq.render, Warnings[code.v])
    /\ UNCHANGED <<illReq, illRow, illKey, illCount, illHistory>>
    /\ NoOther

Renderer == Call("renderer", <<>>, <<>>, SafeCodes[illCode])

\* lines 216-217, 223-224: manim exits non-zero or leaves no output
RenderFails ==
    /\ illPc = "render"
    /\ illCalls' = Append(illCalls, Failing(Renderer))
    /\ \E e \in RenderFailures : illResp' = WithRenderError(illResp, e)
    /\ illPc' = "done"
    /\ UNCHANGED <<illReq, illRow, illRaw, illCode, illWarning, illKey, illCount,
                   illHistory>>
    /\ NoOther

\* lines 216-218: the scene is rendered and the key computed
RenderSucceeds ==
    /\ illPc = "render"
    /\ illCalls' = Append(illCalls, Renderer)
    /\ illKey' = Keys[illRow.question][illCode][illReq.bucket]
    /\ illHistory' = illHistory \cup
          {[question |-> illRow.question, code |-> illCode,
            bucket |-> illReq.bucket, raw |-> illRaw.v,
            key |-> Keys[illRow.question][illCode][illReq.bucket]]}
    /\ illPc' = "upload"
    /\ UNCHANGED <<illReq, illRow, illRaw, illCode, illWarning, illResp, illCount>>
    /\ NoOther

Upload == Call("upload", UploadBucket(illReq.bucket), illKey, <<"video/mp4">>)

\* lines 60-67, 223-224: the upload raises
UploadFails ==
    /\ illPc = "upload"
    /\ illCalls' = Append(illCalls, Failing(Upload))
    /\ \E e \in StorageFailures : illResp' = WithRenderError(illResp, e)
    /\ illPc' = "done"
    /\ UNCHANGED <<illReq, illRow, illRaw, illCode, illWarning, illKey, illCount,
                   illHistory>>
    /\ NoOther

\* lines 60-67
UploadSucceeds ==
    /\ illPc = "upload"
    /\ illCalls' = Append(illCalls, Upload)
    /\ illPc' = "sign"
    /\ UNCHANGED <<illReq, illRow, illRaw, illCode, illWarning, illKey, illResp,
                   illCount, illHistory>>
    /\ NoOther

Sign == Call("sign", UploadBucket(illReq.bucket), illKey, <<"3600">>)

\* lines 68, 223-224: the signed-URL request raises
SignFails ==
    /\ illPc = "sign"
    /\ illCalls' = Append(illCalls, Failing(Sign))
    /\ \E e \in StorageFailures : illResp' = WithRenderError(illResp, e)
    /\ illPc' = "done"
    /\ UNCHANGED <<illReq, illRow, illRaw, illCode, illWarning, illKey, illCount,
                   illHistory>>
    /\ NoOther

\* lines 68-69, 222
SignSucceeds ==
    /\ illPc = "sign"
    /\ illCalls' = Append(illCalls, Sign)
    /\ \E signed_url \in SignedUrls :
         illResp' = WithVideo(illResp, signed_url, illKey)
    /\ illPc' = "done"
    /\ UNCHANGED <<illReq, illRow, illRaw, illCode, illWarning, illKey, illCount,
                   illHistory>>
    /\ NoOther

NextIll ==
    \/ IllReceive
    \/ LookupRaises
    \/ LookupEmpty
    \/ LookupMissingText
    \/ LookupFound
    \/ LlmRaises
    \/ LlmReturns
    \/ RenderFails
    \/ RenderSucceeds
    \/ UploadFails
    \/ UploadSucceeds
    \/ SignFails
    \/ SignSucceeds

SpecIll == InitIll /\ [][NextIll]_vars

-----------------------------------------------------------------------------
(* Claims about chat_with_tools.                                           *)

Answered == chatPc = "done" /\ chatResp.kind = "json"

NoLocalText == ~Truthy(chatLocalText)

ProviderResultPresent == chatResult.type # "NoneType"

\* C1 (amended): when no local handler produces text, the assistant text is
\* the model's raw message content whenever that is non-empty, even when a
\* provider result is present; otherwise it is the stringified provider
\* result, which is the text "None" when there is no provider result.
C1_ContentThenProvider ==
    (Answered /\ NoLocalText) =>
        /\ Truthy(RawContent(chatCompletion))
             => chatResp.assistant_text = chatCompletion.content
        /\ (~Truthy(RawContent(chatCompletion)) /\ ProviderResultPresent)
             => chatResp.assistant_text = PyStr(Str(chatResult))
        /\ (~Truthy(RawContent(chatCompletion)) /\ ~ProviderResultPresent)
             => chatResp.assistant_text = PyStr(<<"None">>)

\* C1 as stated: provider result > raw assistant message > empty string.
C1_ProviderThenContent ==
    (Answered /\ NoLocalText) =>
        /\ ProviderResultPresent
             => chatResp.assistant_text = PyStr(Str(chatResult))
        /\ (~ProviderResultPresent /\ Truthy(RawContent(chatCompletion)))
             => chatResp.assistant_text = chatCompletion.content
        /\ (~ProviderResultPresent /\ ~Truthy(RawContent(chatCompletion)))
             => chatResp.assistant_text = PyStr(<<>>)

\* no local text, a provider result and a non-empty raw message
C1_Witness ==
    /\ Answered
    /\ NoLocalText
    /\ ProviderResultPresent
    /\ chatResult.v # <<>>
    /\ Truthy(RawContent(chatCompletion))

\* C2: whenever a local handler produces non-empty text, the assistant text
\* is that text, whatever the provider returned or raised and whatever the
\* raw content is.
C2_LocalTextWins ==
    (Answered /\ Truthy(chatLocalText)) =>
        /\ chatResp.assistant_text = chatLocalText
        /\ chatLocalText \in
             {_maybe_handle_local_sum_tool(chatCompletion)}
             \cup {_maybe_handle_local_problem_tool(chatCompletion, db) :
                     db \in DbOutcomes}

\* the problem tool answered while the provider returned a result and the
\* model sent content of its own
C2_Witness ==
    /\ Answered
    /\ Truthy(chatLocalText)
    /\ ~Truthy(_maybe_handle_local_sum_tool(chatCompletion))
    /\ ProviderResultPresent
    /\ chatResult.v # <<>>
    /\ Truthy(RawContent(chatCompletion))

-----------------------------------------------------------------------------
(* Claims about the sanitizer.                                             *)

\* C3: the sanitizer is idempotent: sanitizing its own output changes nothing,
\* so a call that is already in obj.animate.<method>( form on a self.play( line
\* is not rewritten again.  Stated for code of a single line, where the line
\* split and join play no part.
C3_SanitizerIdempotent ==
    (sanPc = "twice" /\ ~Contains(sanCode, <<"\n">>)) => sanTwice = sanOnce

-----------------------------------------------------------------------------
(* Claims about the extractor.                                             *)

FencePositions(text) == {i \in 1..Len(text) : HasPrefixAt(text, i, Fence)}

\* the end of the opening fence line: the first line break after the fence
OpeningLineEnd(text) ==
    LET F == FencePositions(text)
    IN Min({i \in (Min(F) + Len(Fence))..Len(text) : text[i] = "\n"} \cup {Len(text) + 1})

\* the text holds exactly one fenced block: an opening fence line that is the
\* fence alone or the fence and the tag python, and one closing fence after it
OneBlock(text) ==
    LET F == FencePositions(text)
    IN /\ Cardinality(F) = 2
       /\ OpeningLineEnd(text) < Max(F)
       /\ SubSeq(text, Min(F) + Len(Fence), OpeningLineEnd(text) - 1)
            \in {<<>>, PythonTag}

\* the text between the opening fence line and the closing fence
Interior(text) ==
    SubSeq(text, OpeningLineEnd(text) + 1, Max(FencePositions(text)) - 1)

NoBlockRaises ==
    FencePositions(extText) = {}
        => extOut = Raised("LLM did not return a Python code block.")

\* C4 (amended): of a text with exactly one fenced block the extractor returns
\* the interior without its leading whitespace (leading blank lines and the
\* indentation of the first line are dropped, everything after is kept); of a
\* text with no fence it raises the extraction error.
C4_ExtractLeadingStripped ==
    extPc = "done" =>
        /\ OneBlock(extText) => extOut = Returned(LStrip(Interior(extText)))
        /\ NoBlockRaises

\* C4 as stated: the interior is returned exactly, all whitespace preserved.
C4_ExtractExactInterior ==
    extPc = "done" =>
        /\ OneBlock(extText) => extOut = Returned(Interior(extText))
        /\ NoBlockRaises

\* a block whose interior starts with whitespace and holds more than that
C4_Witness ==
    /\ extPc = "done"
    /\ OneBlock(extText)
    /\ Interior(extText) # <<>>
    /\ Interior(extText)[1] \in Whitespace
    /\ extOut.ok
    /\ extOut.v # <<>>

-----------------------------------------------------------------------------
(* Claims about compile_run_cpp.                                           *)

EndsWith(s, p) == HasPrefixAt(s, Len(s) - Len(p) + 1, p)

Compiled == \E i \in DOMAIN cppInvoked : cppInvoked[i].outcome = "ok"

CompileTimedOut == \E i \in DOMAIN cppInvoked : cppInvoked[i].outcome = "timeout"

RanToCompletion ==
    /\ cppPc = "done"
    /\ Compiled
    /\ cppRun.state = "completed"
    /\ cppRun.dur <= cppRun.timeout

ReportsTheRun ==
    /\ cppResp.kind = "json"
    /\ cppResp.stage = "run"
    /\ cppResp.stdout = PyStr(cppRun.out)
    /\ cppResp.stderr = PyStr(cppRun.err)
    /\ cppResp.exit_code = cppRun.returncode

\* C5 (amended): a source that compiles and whose binary runs to completion
\* within the timeout yields stage "run", the program's actual stdout and exit
\* code, and ok = true exactly when the exit code is 0.
C5_RunReported ==
    RanToCompletion => (ReportsTheRun /\ cppResp.ok = (cppRun.returncode = 0))

\* C5 as stated: ok = true for every exit code the program may return.
C5_RunAlwaysOk ==
    RanToCompletion => (ReportsTheRun /\ cppResp.ok = TRUE)

\* a completed run of a binary that exits non-zero
C5_Witness ==
    RanToCompletion /\ cppRun.returncode # 0 /\ cppResp.kind = "json"

\* the candidates are tried in the order of compile_cmds, one after the other
TriedInOrder ==
    /\ Len(cppInvoked) <= Len(CompileCmds)
    /\ \A i \in DOMAIN cppInvoked : cppInvoked[i].cmd = CompileCmds[i]

\* nothing is invoked after a candidate that succeeded
NoneAfterSuccess ==
    \A i \in DOMAIN cppInvoked :
        cppInvoked[i].outcome = "ok" => i = Len(cppInvoked)

\* the binary is executed only after some candidate succeeded
RunOnlyIfCompiled == cppRun.state # "none" => Compiled

AnswersCompileFailure ==
    /\ cppResp.kind = "json"
    /\ cppResp.ok = FALSE
    /\ cppResp.stage = "compile"
    /\ cppRun.state = "none"

\* C6 (amended): the candidates are tried in the fixed order, none after a
\* success, and the binary runs only after a success; when every candidate
\* is missing or exits non-zero the response is ok=false, stage="compile" and
\* the binary is never executed; a compile that times out ends the request
\* with an HTTP 500, with no further candidate tried and the binary never
\* executed.
C6_CompileLoop ==
    /\ TriedInOrder
    /\ NoneAfterSuccess
    /\ RunOnlyIfCompiled
    /\ (cppPc = "done" /\ ~Compiled /\ ~CompileTimedOut) => AnswersCompileFailure
    /\ (cppPc = "done" /\ CompileTimedOut) =>
          /\ cppResp = HttpError(500)
          /\ cppRun.state = "none"
          /\ cppInvoked[Len(cppInvoked)].outcome = "timeout"

\* C6 as stated: whenever no candidate succeeds, a compile that timed out
\* included, the response is ok=false, stage="compile".
C6_CompileLoopAsStated ==
    /\ TriedInOrder
    /\ NoneAfterSuccess
    /\ RunOnlyIfCompiled
    /\ (cppPc = "done" /\ ~Compiled) => AnswersCompileFailure

\* the last candidate is reached after three that did not succeed, and fails
C6_Witness ==
    /\ cppPc = "done"
    /\ Len(cppInvoked) = Len(CompileCmds)
    /\ ~Compiled
    /\ ~CompileTimedOut
    /\ cppResp.kind = "json"
    /\ cppResp.stage = "compile"

\* C7: when the binary does not finish within the effective timeout the
\* response is ok=false, stage="run", exit_code=124, stdout the partial output
\* and stderr ends with "Timed out."; the request does not fail with an HTTP
\* error.
C7_RunTimeoutReported ==
    (cppPc = "done" /\ cppRun.state = "timeout") =>
        /\ cppResp.kind = "json"
        /\ cppResp.ok = FALSE
        /\ cppResp.stage = "run"
        /\ cppResp.exit_code = TimeoutExitCode
        /\ cppResp.stdout.v = cppRun.out
        /\ EndsWith(cppResp.stderr.v, <<"T","i","m","e","d"," ","o","u","t",".">>)

Clamp(n) == IF n < 1 THEN 1 ELSE n

\* C8 (amended): the effective run timeout is 5 seconds when timeout_sec is
\* not supplied, null or 0, and max(1, timeout_sec) for every other integer.
C8_EffectiveTimeout ==
    cppRun.state # "none" =>
        cppRun.timeout =
            IF cppBody.has_timeout /\ cppBody.timeout_sec.type = "int"
                 /\ cppBody.timeout_sec.n # 0
            THEN Clamp(cppBody.timeout_sec.n) ELSE 5

\* C8 as stated: 5 when not supplied, max(1, timeout_sec) for every supplied
\* integer, 0 included.
C8_TimeoutClampedAtZero ==
    cppRun.state # "none" =>
        /\ ~cppBody.has_timeout => cppRun.timeout = 5
        /\ (cppBody.has_timeout /\ cppBody.timeout_sec.type = "int")
             => cppRun.timeout = Clamp(cppBody.timeout_sec.n)

\* a run under a negative timeout_sec, clamped to 1
C8_Witness ==
    /\ cppRun.state # "none"
    /\ cppBody.has_timeout
    /\ cppBody.timeout_sec.type = "int"
    /\ cppBody.timeout_sec.n < 0
    /\ cppRun.timeout = 1

-----------------------------------------------------------------------------
(* Claims about get_illustration.                                           *)

\* a request with render=true is over and had reached the renderer
RenderAttempted ==
    /\ illPc = "done"
    /\ illReq.render
    /\ Len(illCalls) >= 3
    /\ illCalls[3].call = "renderer"

\* the renderer, the upload and the signed-URL request all returned
EveryStageSucceeded ==
    /\ Len(illCalls) = 5
    /\ \A i \in 3..5 : ~illCalls[i].raised

\* C9: with render=true a failing render, upload or sign stage is caught and
\* the request still answers with question, code and warning as they were
\* computed, plus render_error; video_url and storage_key are present exactly
\* when every stage succeeded, and never together with render_error.
C9_RenderFailuresCaught ==
    RenderAttempted =>
        /\ illResp.kind = "json"
        /\ {"question", "code", "warning"} \subseteq illResp.fields
        /\ illResp.question = illRow.question
        /\ illResp.code = Extracted[illRaw.v].v
        /\ illResp.warning = Warnings[illResp.code]
        /\ "render_error" \in illResp.fields <=> ~EveryStageSucceeded
        /\ "video_url" \in illResp.fields <=> EveryStageSucceeded
        /\ "storage_key" \in illResp.fields <=> EveryStageSucceeded
        /\ EveryStageSucceeded => illResp.storage_key = illKey

\* the scene was rendered, the upload raised, and the answer carries the
\* code, a warning and the error
C9_Witness ==
    /\ RenderAttempted
    /\ Len(illCalls) = 4
    /\ illCalls[4].call = "upload"
    /\ illCalls[4].raised
    /\ illResp.kind = "json"
    /\ illResp.warning # PyNone
    /\ illResp.render_error \in StorageFailures

\* C10: the storage key is a function of the question and the extracted code
\* alone: two rendered requests with the same question and the same code
\* have the same key, whatever their bucket and the raw answer the code was
\* extracted from, and the key is the one computed from the unsanitized code.
C10_KeyPureFunction ==
    /\ \A r1, r2 \in illHistory :
         (r1.question = r2.question /\ r1.code = r2.code) => r1.key = r2.key
    /\ \A r \in illHistory :
         r.key = <<"algo-viz/">> \o Slugs[r.question] \o <<"/">>
                    \o Hashes[r.code] \o <<".mp4">>

\* two rendered requests with the same question and code, different buckets
\* and different raw answers, whose sanitized code differs from the code
C10_Witness ==
    \E r1, r2 \in illHistory :
        /\ r1.question = r2.question
        /\ r1.code = r2.code
        /\ r1.bucket # r2.bucket
        /\ r1.raw # r2.raw
        /\ SafeCodes[r1.code] # r1.code

\* the record lookup was issued and returned
LookupReturned == Len(illCalls) >= 1 /\ ~illCalls[1].raised

\* the names of the calls issued so far, in order
CallNames == [i \in 1..Len(illCalls) |-> illCalls[i].call]

\* C11: when the lookup returns no row the request ends with 404 "Problem not
\* found", and when the row has neither markdown nor answer it ends with 400;
\* in both cases the lookup is the only external call: the language model,
\* the renderer and the storage are never called.
C11_MissingDataIsClientError ==
    /\ (LookupReturned /\ illRow = NoRow) =>
          /\ illPc = "done"
          /\ illResp = HTTPException(404, <<"Problem not found">>)
          /\ CallNames = <<"lookup">>
    /\ (LookupReturned /\ illRow # NoRow
            /\ illRow.markdown = <<>> /\ illRow.answer = <<>>) =>
          /\ illPc = "done"
          /\ illResp.kind = "http_error"
          /\ illResp.status = 400
          /\ CallNames = <<"lookup">>

\* a request for a rendering whose row has a question and no text, answered
\* with 400
C11_Witness ==
    /\ LookupReturned
    /\ illReq.render
    /\ illRow.id = illReq.id
    /\ illRow.question # <<>>
    /\ illRow.markdown = <<>>
    /\ illRow.answer = <<>>
    /\ illPc = "done"
    /\ illResp.status = 400

\* the external calls of a request, in the order of the handler
StageOrder == <<"lookup", "llm", "renderer", "upload", "sign">>

\* the language model answered and a code block was extracted from the answer
ExtractionSucceeded ==
    /\ Len(illCalls) >= 2
    /\ ~illCalls[1].raised
    /\ ~illCalls[2].raised
    /\ Extracted[illRaw.v].ok

\* the n-th call was issued
Issued(n) == Len(illCalls) >= n

\* the n-th call was issued and returned
Succeeded(n) == Issued(n) /\ ~illCalls[n].raised

\* C12: the external calls of a request are a prefix of lookup, language
\* model, renderer, upload, sign; none is issued twice; a call is issued
\* only after every earlier one returned; and when the request is over the
\* renderer was issued exactly when render is true and the extraction
\* succeeded, the upload exactly when the renderer then returned and the sign
\* exactly when the upload returned, with or without a validator warning.
C12_LinearCallSequence ==
    /\ Len(illCalls) <= Len(StageOrder)
    /\ \A i \in 1..Len(illCalls) : illCalls[i].call = StageOrder[i]
    /\ \A i, j \in 1..Len(illCalls) :
          illCalls[i].call = illCalls[j].call => i = j
    /\ \A i \in 1..Len(illCalls) : \A j \in 1..(i - 1) : ~illCalls[j].raised
    /\ illPc = "done" =>
          /\ Issued(3) <=> (illReq.render /\ ExtractionSucceeded)
          /\ Issued(4) <=> Succeeded(3)
          /\ Issued(5) <=> Succeeded(4)

\* a request that went through all five calls although the validator had
\* produced a warning
C12_Witness ==
    /\ illPc = "done"
    /\ illReq.render
    /\ illWarning # PyNone
    /\ CallNames = StageOrder
    /\ \A i \in 1..5 : ~illCalls[i].raised

\* C13: the rendered artifact is uploaded to, and the signed URL issued for,
\* the bucket named by the request's bucket parameter, for every bucket the
\* caller supplies.
C13_RequestBucketUsed ==
    \A i \in 1..Len(illCalls) :
        illCalls[i].call \in {"upload", "sign"} =>
            illCalls[i].bucket = illReq.bucket

=============================================================================
